---- MODULE Spec2Model ----
(***************************************************************************)
(* Model of stress_monitor.py: the BLE telemetry stream processor.         *)
(*                                                                         *)
(*   - BLEWorker.notification_handler / process_long_packet: per-channel   *)
(*     frame reassembly and decoding, driven by one asyncio task per       *)
(*     notification;                                                       *)
(*   - MyApp.handle_new_data / update_interval: the moving windows, the    *)
(*     interval accumulators and the interval histories;                   *)
(*   - denoise_signal / categorize_stress_5: the pure helpers.             *)
(*                                                                         *)
(* Bytes are integers 0..255, byte strings are sequences of bytes.  Python *)
(* indices are 0-based; TLA+ sequences are 1-based, so python b[i] is      *)
(* b[i + 1] here.  A python float holding a quotient of small integers is  *)
(* modelled by the exact fraction [num, den] in lowest terms (den > 0):    *)
(* for the sums and counts that occur the correctly rounded double is an   *)
(* injective image of that fraction, and comparisons with the integer      *)
(* thresholds 20, 40, 60, 80 agree.                                        *)
(***************************************************************************)
EXTENDS Integers, Sequences, FiniteSets, TLC

----------------------------------------------------------------------------
(* Program constants *)

PACKET_SIZE == 36

MOVING_MAXLEN == 15

INTERVAL_MAXLEN == 5

MARKER == <<170, 170, 32>>

Channels == {"left", "right"}

None == [num |-> 0, den |-> 0]

----------------------------------------------------------------------------
(* Bounds of the model *)

\* tasks created by notifications and not yet run by the event loop
MaxPending == 2

\* handle_new_data calls explored from each starting state of AggSpec
MaxObs == 3

\* update_interval ticks explored from each starting state of AggSpec
MaxTicks == 3

\* categorize_stress_5 is tried on the fractions n / d with d up to MaxDen
\* and a magnitude up to MaxAbs
MaxDen == 3

MaxAbs == 300

\* the connection attempts one worker makes
MaxAttempts == 2

----------------------------------------------------------------------------
(* Byte-string helpers: bytes.find and slicing *)

\* buffer[i:j] of python, 0-based, half-open
Slice(b, i, j) == SubSeq(b, i + 1, IF j > Len(b) THEN Len(b) ELSE j)

\* does the marker start at 0-based index i of b
MarkerAt(b, i) ==
    /\ i + Len(MARKER) =< Len(b)
    /\ \A k \in 1..Len(MARKER) : b[i + k] = MARKER[k]

\* the lowest 0-based index from i on at which the marker starts, or -1
FindFrom(b, i) ==
    LET last == Len(b) - Len(MARKER) IN
    IF \E k \in i..last : MarkerAt(b, k)
    THEN CHOOSE k \in i..last :
            MarkerAt(b, k) /\ \A j \in i..(k - 1) : ~MarkerAt(b, j)
    ELSE -1

\* buffer.find(b"\xAA\xAA\x20"): lowest 0-based index of the marker, or -1
find(b) == FindFrom(b, 0)

\* b"\xAA\xAA\x20" in buffer
contains(b) == find(b) # -1

----------------------------------------------------------------------------
(* process_long_packet: the frame decoder *)

HexDigits == <<"0", "1", "2", "3", "4", "5", "6", "7",
               "8", "9", "A", "B", "C", "D", "E", "F">>

\* f"{byte:02X}"
hex_value(byte) == <<HexDigits[(byte \div 16) + 1], HexDigits[(byte % 16) + 1]>>

DigitValue(c) == (CHOOSE k \in 1..16 : HexDigits[k] = c) - 1

\* int(h, 16) of a two-digit string
int16(h) == 16 * DigitValue(h[1]) + DigitValue(h[2])

\* (mutant) stress is clamped at zero
stress_clamped(meditation_int) == IF meditation_int > 100 THEN 0 ELSE 100 - meditation_int

\* stress_int = 100 - meditation_int
stress_of(meditation_int) == 100 - meditation_int

\* process_long_packet: the data_received event, or the error branch when an
\* index is out of range (IndexError caught at line 191)
process_long_packet(packet, channel) ==
    IF Len(packet) < 35
    THEN [ok |-> FALSE, channel |-> channel, stress |-> 0, attention |-> 0,
          signal_quality |-> 0]
    ELSE LET hex_values == [i \in 1..Len(packet) |-> hex_value(packet[i])]
             meditation_int == int16(hex_values[33])
             attention_int == int16(hex_values[35])
             signal_quality_int == int16(hex_values[5])
         IN [ok |-> TRUE, channel |-> channel,
             stress |-> stress_of(meditation_int),
             attention |-> attention_int,
             signal_quality |-> signal_quality_int]

----------------------------------------------------------------------------
(* notification_handler: the frame reassembler *)

\* which packet the loop cuts out once the marker is at start_index
packet_of(buffer, start_index) == Slice(buffer, start_index, start_index + PACKET_SIZE)

\* (mutant) only the marker is cut away after a packet
rest_of_marker_only(buffer, start_index) == Slice(buffer, start_index + Len(MARKER), Len(buffer))

\* what the loop keeps after cutting a packet at start_index
rest_of(buffer, start_index) == Slice(buffer, start_index + PACKET_SIZE, Len(buffer))

\* (mutant) a packet is cut one byte early
complete_early(buffer, start_index) == Len(buffer) >= start_index + PACKET_SIZE - 1

\* may the loop cut a packet at start_index
complete(buffer, start_index) == Len(buffer) >= start_index + PACKET_SIZE

\* The while loop of notification_handler.  dropped counts the bytes of the
\* initial buffer already cut away, so that each packet is recorded with the
\* offset (at) of its first byte in the initial buffer.
RECURSIVE ExtractLoop(_, _, _)
ExtractLoop(buffer, dropped, packets) ==
    IF ~contains(buffer)
    THEN [buffer |-> buffer, dropped |-> dropped, packets |-> packets]
    ELSE LET start_index == find(buffer) IN
         IF complete(buffer, start_index)
         THEN ExtractLoop(rest_of(buffer, start_index),
                          dropped + start_index + PACKET_SIZE,
                          Append(packets,
                                 [at |-> dropped + start_index,
                                  packet |-> packet_of(buffer, start_index)]))
         ELSE [buffer |-> buffer, dropped |-> dropped, packets |-> packets]

\* (mutant) the bytes kept from earlier chunks are forgotten
handler_fresh(buffer, data) == ExtractLoop(data, 0, <<>>)

\* notification_handler on a channel buffer and one chunk
handler(buffer, data) == ExtractLoop(buffer \o data, 0, <<>>)

----------------------------------------------------------------------------
(* Numbers: python floats that are quotients of integers *)

RECURSIVE gcd(_, _)
gcd(a, b) == IF b = 0 THEN a ELSE gcd(b, a % b)

abs(n) == IF n < 0 THEN -n ELSE n

\* the float n / d (d > 0) as a fraction in lowest terms
Frac(n, d) == LET g == gcd(abs(n), d) IN [num |-> n \div g, den |-> d \div g]

\* the float of an integer
float(n) == [num |-> n, den |-> 1]

\* value < k for a float value and an integer k
less(value, k) == value.num < k * value.den

\* sum(values) of a list of integer-valued floats
RECURSIVE sum(_)
sum(values) == IF values = <<>> THEN 0 ELSE Head(values) + sum(Tail(values))

\* f"{value:.2f}": the value in hundredths, rounded to nearest (no value
\* that occurs lies half-way between two hundredths)
fmt2(value) == (200 * value.num + value.den) \div (2 * value.den)

----------------------------------------------------------------------------
(* denoise_signal and categorize_stress_5 *)

denoise_signal(values) ==
    IF values = <<>> THEN None ELSE Frac(sum(values), Len(values))

\* (mutant) the band edges belong to the band below
categorize_edges_below(value) ==
    IF value = None THEN "No Data"
    ELSE IF value.num =< 20 * value.den THEN "Very Low"
    ELSE IF value.num =< 40 * value.den THEN "Low"
    ELSE IF value.num =< 60 * value.den THEN "Moderate"
    ELSE IF value.num =< 80 * value.den THEN "High"
    ELSE "Very High"

categorize_stress_5(value) ==
    IF value = None THEN "No Data"
    ELSE IF less(value, 20) THEN "Very Low"
    ELSE IF less(value, 40) THEN "Low"
    ELSE IF less(value, 60) THEN "Moderate"
    ELSE IF less(value, 80) THEN "High"
    ELSE "Very High"

----------------------------------------------------------------------------
(* MyApp: the aggregation state and its handlers, on one record self *)

\* (mutant) a deque that never evicts
deque_append_unbounded(d, x, maxlen) == Append(d, x)

\* deque(maxlen=maxlen).append(x): the oldest entry goes when the deque is full
deque_append(d, x, maxlen) ==
    IF Len(d) >= maxlen THEN Append(Tail(d), x) ELSE Append(d, x)

\* setup_signal_label: the label before any sample
unknown_label(side) ==
    [side |-> side, text |-> "Unknown", quality |-> -1, color |-> "black"]

\* update_signal_quality
update_signal_quality(quality, side) ==
    IF quality = 0
    THEN [side |-> side, text |-> "Good", quality |-> -1, color |-> "green"]
    ELSE IF 1 =< quality /\ quality =< 50
    THEN [side |-> side, text |-> "Poor", quality |-> quality, color |-> "orange"]
    ELSE [side |-> side, text |-> "Very Poor", quality |-> quality, color |-> "red"]

\* init_data_buffers and setup_monitor_page
init_data_buffers ==
    [stress_values_left |-> <<>>,
     stress_values_right |-> <<>>,
     interval_stress_buffer_left |-> <<>>,
     interval_stress_buffer_right |-> <<>>,
     interval_stress_left |-> <<>>,
     interval_stress_right |-> <<>>,
     signal_quality_label_left |-> unknown_label("Left"),
     signal_quality_label_right |-> unknown_label("Right"),
     ax2 |-> <<>>,
     text_edit |-> <<>>]

\* (mutant) poor-quality samples are aggregated too
accepted_up_to_poor(signal_quality) == signal_quality =< 50

\* the gate of handle_new_data: signal_quality == 0
accepted(signal_quality) == signal_quality = 0

\* (mutant) a sample of the right channel also enters the left window
handle_new_data_shared(self, channel, stress, attention, signal_quality) ==
    IF channel = "left"
    THEN LET s1 == [self EXCEPT !.signal_quality_label_left =
                        update_signal_quality(signal_quality, "Left")]
         IN IF accepted(signal_quality)
            THEN [s1 EXCEPT
                    !.stress_values_left = deque_append(@, stress, MOVING_MAXLEN),
                    !.interval_stress_buffer_left = Append(@, stress)]
            ELSE s1
    ELSE LET s1 == [self EXCEPT !.signal_quality_label_right =
                        update_signal_quality(signal_quality, "Right")]
         IN IF accepted(signal_quality)
            THEN [s1 EXCEPT
                    !.stress_values_left = deque_append(@, stress, MOVING_MAXLEN),
                    !.stress_values_right = deque_append(@, stress, MOVING_MAXLEN),
                    !.interval_stress_buffer_right = Append(@, stress)]
            ELSE s1

\* handle_new_data
handle_new_data(self, channel, stress, attention, signal_quality) ==
    IF channel = "left"
    THEN LET s1 == [self EXCEPT !.signal_quality_label_left =
                        update_signal_quality(signal_quality, "Left")]
         IN IF accepted(signal_quality)
            THEN [s1 EXCEPT
                    !.stress_values_left = deque_append(@, stress, MOVING_MAXLEN),
                    !.interval_stress_buffer_left = Append(@, stress)]
            ELSE s1
    ELSE LET s1 == [self EXCEPT !.signal_quality_label_right =
                        update_signal_quality(signal_quality, "Right")]
         IN IF accepted(signal_quality)
            THEN [s1 EXCEPT
                    !.stress_values_right = deque_append(@, stress, MOVING_MAXLEN),
                    !.interval_stress_buffer_right = Append(@, stress)]
            ELSE s1

\* (mutant) the average divides by one more than the count
average_off_by_one(values) == Frac(sum(values), Len(values) + 1)

\* sum(buffer) / len(buffer) of update_interval
average(values) == Frac(sum(values), Len(values))

\* (mutant) an empty interval repeats the previous average
rollup_reemit(buffer, history) ==
    IF buffer # <<>>
    THEN [history |-> deque_append(history, average(buffer), INTERVAL_MAXLEN),
          buffer |-> <<>>]
    ELSE [history |-> IF history = <<>> THEN history
                      ELSE deque_append(history, history[Len(history)], INTERVAL_MAXLEN),
          buffer |-> buffer]

\* one channel's part of update_interval
rollup(buffer, history) ==
    IF buffer # <<>>
    THEN [history |-> deque_append(history, average(buffer), INTERVAL_MAXLEN),
          buffer |-> <<>>]
    ELSE [history |-> history, buffer |-> buffer]

\* left_values / right_values of update_interval_plot: zeros in front up to 5
RECURSIVE pad5(_)
pad5(values) == IF Len(values) < 5 THEN pad5(<<float(0)>> \o values) ELSE values

\* update_interval_plot: the bars of both channels with their band labels
update_interval_plot(self) ==
    LET left_values == pad5(self.interval_stress_left)
        right_values == pad5(self.interval_stress_right)
        bars(values) == [i \in 1..Len(values) |->
                            [height |-> values[i],
                             label |-> categorize_stress_5(values[i])]]
    IN [self EXCEPT !.ax2 = <<bars(left_values), bars(right_values)>>]

\* update_interval_summary: the summary appended to the text box (the last
\* one is kept)
update_interval_summary(self) ==
    IF self.interval_stress_left # <<>> /\ self.interval_stress_right # <<>>
    THEN LET left_latest == self.interval_stress_left[Len(self.interval_stress_left)]
             right_latest == self.interval_stress_right[Len(self.interval_stress_right)]
         IN [self EXCEPT !.text_edit =
                <<fmt2(left_latest), categorize_stress_5(left_latest),
                  fmt2(right_latest), categorize_stress_5(right_latest)>>]
    ELSE self

\* update_interval
update_interval(self) ==
    LET l == rollup(self.interval_stress_buffer_left, self.interval_stress_left)
        r == rollup(self.interval_stress_buffer_right, self.interval_stress_right)
        s1 == [self EXCEPT !.interval_stress_left = l.history,
                           !.interval_stress_buffer_left = l.buffer,
                           !.interval_stress_right = r.history,
                           !.interval_stress_buffer_right = r.buffer]
    IN update_interval_summary(update_interval_plot(s1))

----------------------------------------------------------------------------
(* State *)

VARIABLES
    buffer_left,        \* BLEWorker.buffer_left
    buffer_right,       \* BLEWorker.buffer_right
    tasks,              \* the event loop's ready queue of notification_handler tasks
    data_received,      \* per channel, the data_received events emitted so far
    rest,               \* per channel, the bytes the device has yet to send
    stream,             \* per channel, the bytes the transport has delivered
    consumed,           \* per channel, the delivered bytes already cut from the buffer
    held,               \* per channel, has a handler run ended with bytes kept back
    origin,             \* per channel, for each delivered byte the client it came through
    signals,            \* the data_received events queued for the GUI thread
    stress_values_left,             \* MyApp: moving window, left
    stress_values_right,            \* MyApp: moving window, right
    interval_stress_buffer_left,    \* MyApp: interval accumulator, left
    interval_stress_buffer_right,   \* MyApp: interval accumulator, right
    interval_stress_left,           \* MyApp: interval history, left
    interval_stress_right,          \* MyApp: interval history, right
    signal_quality_label_left,      \* MyApp: last-known signal quality, left
    signal_quality_label_right,     \* MyApp: last-known signal quality, right
    ax2,                \* the bars drawn by the last update_interval_plot
    text_edit,          \* the last interval summary appended to the text box
    calls,              \* the last two MyApp slots called, oldest first
    nobs,               \* handle_new_data calls so far
    nticks,             \* update_interval calls so far
    packet,             \* the frame last given to process_long_packet on its own
    decoded,            \* what process_long_packet made of packet
    value,              \* the value last given to categorize_stress_5 on its own
    band,               \* what categorize_stress_5 made of value
    pc,                 \* per worker, where its ble_loop stands
    stop_event,         \* per worker, BLEWorker._stop_event
    sleep_left,         \* per worker, the time left of the asyncio.sleep it is in
    attempts,           \* per worker, the BleakClients made so far (the last is client)
    open,               \* per worker, the clients whose connection is up
    subs,               \* per worker, the live subscriptions <<client, channel>>
    connection_status,  \* per worker, the connection_status events emitted so far
    log_message,        \* per worker, the log_message events emitted since its last client was made
    ble_worker,         \* MyApp.ble_worker: the worker the application holds
    gui,                \* where the GUI thread stands: idle, or inside wait(2000)
    wait_left,          \* the time left of the wait(2000) the GUI thread is in
    status_bar,         \* the message handle_connection_status showed last
    stop_mark           \* per worker, where its loop stood when stop() was called

frame_vars == <<buffer_left, buffer_right, tasks, data_received, rest, stream,
                consumed, held>>

agg_vars == <<stress_values_left, stress_values_right,
              interval_stress_buffer_left, interval_stress_buffer_right,
              interval_stress_left, interval_stress_right,
              signal_quality_label_left, signal_quality_label_right,
              ax2, text_edit, calls, nobs, nticks>>

pure_vars == <<packet, decoded, value, band>>

wire_vars == <<origin, signals>>

loop_vars == <<pc, stop_event, sleep_left, attempts, open, subs, connection_status,
               log_message, ble_worker, gui, wait_left, status_bar, stop_mark>>

vars == <<frame_vars, wire_vars, agg_vars, pure_vars, loop_vars>>

----------------------------------------------------------------------------
(* Device byte streams the transport delivers *)

\* A 36-byte frame: marker, signal quality at offset 4, meditation at 32,
\* attention at 34, every other byte fill
Frame(q, med, att, fill) ==
    [i \in 1..PACKET_SIZE |->
        IF i =< 3 THEN MARKER[i]
        ELSE IF i = 5 THEN q
        ELSE IF i = 33 THEN med
        ELSE IF i = 35 THEN att
        ELSE fill]

\* A frame whose payload holds the marker pattern again, at offsets 10..12
FrameM(q, med, att) ==
    [i \in 1..PACKET_SIZE |->
        IF i \in 11..13 THEN MARKER[i - 10] ELSE Frame(q, med, att, 0)[i]]

\* noise ending in a lone AA, a frame with an inner marker, a poor-quality
\* frame, then a frame that never completes
Stream1 == <<0, 170>> \o FrameM(0, 30, 10) \o Frame(7, 130, 20, 0) \o <<170, 170, 32, 0, 0>>

\* two frames back to back, then one byte of noise
Stream2 == Frame(0, 30, 10, 0) \o Frame(200, 130, 10, 1) \o <<1>>

\* a marker cut short by the start of a full frame
Stream3 == <<170, 170, 32, 9, 9>> \o Frame(0, 30, 10, 0) \o <<170, 170>>

\* a marker that is never followed by 36 bytes; bytes without any marker
Stream4 == <<170, 170, 32, 0, 7>>

Stream5 == <<1, 170, 170>>

\* which streams the device sends on the two channels
StreamPairs ==
    { [left |-> Stream1, right |-> Stream4],
      [left |-> Stream2, right |-> Stream5],
      [left |-> Stream3, right |-> Stream4],
      [left |-> Stream5, right |-> Stream1],
      [left |-> Stream4, right |-> Stream2] }

\* chunk lengths of the notifications explored while tasks queue up: empty,
\* cutting the marker, a frame and the first byte of the next, two frames
ChunkLens == {0, 2, PACKET_SIZE + 1, 2 * PACKET_SIZE}

----------------------------------------------------------------------------
(* The frame pipeline: notifications, tasks, reassembly, decoding *)

\* BLEWorker.__init__: both buffers empty; no task, no event; the device is
\* about to send one of the streams of pairs
WorkerInit(pairs) ==
    /\ buffer_left = <<>>
    /\ buffer_right = <<>>
    /\ tasks = <<>>
    /\ data_received = [c \in Channels |-> <<>>]
    /\ rest \in pairs
    /\ stream = [c \in Channels |-> <<>>]
    /\ consumed = [c \in Channels |-> 0]
    /\ held = [c \in Channels |-> FALSE]
    /\ origin = [c \in Channels |-> <<>>]
    /\ signals = <<>>

\* the variables of MyApp hold the record self
IsSelf(self) ==
    /\ stress_values_left = self.stress_values_left
    /\ stress_values_right = self.stress_values_right
    /\ interval_stress_buffer_left = self.interval_stress_buffer_left
    /\ interval_stress_buffer_right = self.interval_stress_buffer_right
    /\ interval_stress_left = self.interval_stress_left
    /\ interval_stress_right = self.interval_stress_right
    /\ signal_quality_label_left = self.signal_quality_label_left
    /\ signal_quality_label_right = self.signal_quality_label_right
    /\ ax2 = self.ax2
    /\ text_edit = self.text_edit

\* MyApp.__init__ followed by the slot calls that led to self
AppInit(self) ==
    /\ IsSelf(self)
    /\ calls = <<>>
    /\ nobs = 0
    /\ nticks = 0

\* no frame has been decoded yet
NotDecoded ==
    [ok |-> FALSE, channel |-> "", stress |-> 0, attention |-> 0, signal_quality |-> 0]

\* the frame and the value the pure functions are about to be given
PureInit(packets, values) ==
    /\ packet \in packets
    /\ decoded = NotDecoded
    /\ value \in values
    /\ band = ""

\* the seconds ble_loop sleeps after a failed attempt
RETRY_DELAY == 5

\* the seconds ble_loop sleeps between two looks at _stop_event while connected
POLL_DELAY == 1

\* the seconds restart_ble_worker waits for the stopped worker: wait(2000)
WAIT_TIMEOUT == 2

\* the workers the application makes: the first in MyApp.__init__, the
\* second in restart_ble_worker
Workers == {"first", "second"}

\* stop() has not been called on the worker
NoMark == [pc |-> "", left |-> 0]

\* MyApp.__init__: connect_ble_worker starts the first worker, whose thread
\* is about to evaluate the while condition of ble_loop; a later worker does
\* not exist yet
LoopInit ==
    /\ pc = [w \in Workers |-> IF w = "first" THEN "while" ELSE "none"]
    /\ stop_event = [w \in Workers |-> FALSE]
    /\ sleep_left = [w \in Workers |-> 0]
    /\ attempts = [w \in Workers |-> 0]
    /\ open = [w \in Workers |-> {}]
    /\ subs = [w \in Workers |-> {}]
    /\ connection_status = [w \in Workers |-> <<>>]
    /\ log_message = [w \in Workers |-> <<>>]
    /\ ble_worker = "first"
    /\ gui = "idle"
    /\ wait_left = 0
    /\ status_bar = ""
    /\ stop_mark = [w \in Workers |-> NoMark]

Init ==
    /\ WorkerInit(StreamPairs)
    /\ AppInit(init_data_buffers)
    /\ PureInit({<<>>}, {None})
    /\ LoopInit

\* The transport delivers the next n bytes of a channel: the start_notify
\* callback wraps notification_handler(sender, data, ch) in a new task,
\* which the event loop appends to its ready queue.
Deliver(client, ch, n, cap) ==
    /\ Len(tasks) < cap
    /\ n =< Len(rest[ch])
    /\ LET data == SubSeq(rest[ch], 1, n) IN
       /\ tasks' = Append(tasks, [channel |-> ch, data |-> data])
       /\ stream' = [stream EXCEPT ![ch] = @ \o data]
       /\ rest' = [rest EXCEPT ![ch] = SubSeq(@, n + 1, Len(@))]
       /\ origin' = [origin EXCEPT ![ch] = @ \o [i \in 1..n |-> client]]
    /\ UNCHANGED <<buffer_left, buffer_right, data_received, consumed, held, signals>>
    /\ UNCHANGED <<agg_vars, pure_vars, loop_vars>>

\* a notification of a worker whose connection is not followed
Notify(ch, n, cap) == Deliver(0, ch, n, cap)

\* (mutant) the event loop runs the newest ready task first
next_task_lifo(q) == Len(q)

\* which ready task the event loop runs next: the oldest (call_soon is FIFO)
next_task(q) == 1

\* the ready queue without its i-th task
without(q, i) == SubSeq(q, 1, i - 1) \o SubSeq(q, i + 1, Len(q))

\* the events process_long_packet emits for the packets of one handler run
RECURSIVE events_of(_, _, _)
events_of(packets, channel, base) ==
    IF packets = <<>> THEN <<>>
    ELSE LET p == Head(packets)
             e == process_long_packet(p.packet, channel)
         IN (IF e.ok
             THEN <<[stress |-> e.stress, attention |-> e.attention,
                     signal_quality |-> e.signal_quality,
                     at |-> base + p.at, packet |-> p.packet]>>
             ELSE <<>>)
            \o events_of(Tail(packets), channel, base)

\* data_received.emit(channel, stress, attention, signal_quality), queued
\* for the thread of the receiver
queued(events, channel) ==
    [i \in 1..Len(events) |->
        [channel |-> channel, stress |-> events[i].stress,
         attention |-> events[i].attention,
         signal_quality |-> events[i].signal_quality]]

\* The event loop runs one notification_handler task to completion (the
\* coroutine has no await, so nothing interleaves with it).
RunTask ==
    /\ tasks # <<>>
    /\ LET i == next_task(tasks)
           t == tasks[i]
           buffer == IF t.channel = "left" THEN buffer_left ELSE buffer_right
           r == handler(buffer, t.data)
       IN /\ tasks' = without(tasks, i)
          /\ IF t.channel = "left"
             THEN buffer_left' = r.buffer /\ UNCHANGED buffer_right
             ELSE buffer_right' = r.buffer /\ UNCHANGED buffer_left
          /\ data_received' =
                [data_received EXCEPT ![t.channel] =
                    @ \o events_of(r.packets, t.channel, consumed[t.channel])]
          /\ signals' = signals \o queued(events_of(r.packets, t.channel, 0), t.channel)
          /\ consumed' = [consumed EXCEPT ![t.channel] = @ + r.dropped]
          /\ held' = [held EXCEPT ![t.channel] = @ \/ r.buffer # <<>>]
    /\ UNCHANGED <<rest, stream, origin, agg_vars, pure_vars, loop_vars>>

\* notifications may queue up to MaxPending tasks before the loop runs them
Next ==
    \/ \E ch \in Channels, n \in ChunkLens : Notify(ch, n, MaxPending)
    \/ RunTask

Spec == Init /\ [][Next]_vars

\* every chunk length at every stream position, each task run before the
\* next notification arrives
CutNext ==
    \/ \E ch \in Channels : \E n \in 0..Len(rest[ch]) : Notify(ch, n, 1)
    \/ RunTask

CutSpec == Init /\ [][CutNext]_vars

\* n bytes in which the marker never occurs: AA AA 01 AA AA 01 ...
Noise(n) == [i \in 1..n |-> IF i % 3 = 0 THEN 1 ELSE 170]

\* the bytes of seven frames, none of them a marker
NoiseLen == 7 * PACKET_SIZE

\* the device sends noise on the left channel; on the right channel it sends
\* a marker and then stops before the frame is complete
NoiseInit ==
    /\ WorkerInit({[left |-> Noise(NoiseLen), right |-> <<1>> \o MARKER \o <<0, 0>>]})
    /\ AppInit(init_data_buffers)
    /\ PureInit({<<>>}, {None})
    /\ LoopInit

NoiseSpec == NoiseInit /\ [][Next]_vars

----------------------------------------------------------------------------
(* The aggregator: MyApp's slots, called from the GUI thread's event loop *)

Self ==
    [stress_values_left |-> stress_values_left,
     stress_values_right |-> stress_values_right,
     interval_stress_buffer_left |-> interval_stress_buffer_left,
     interval_stress_buffer_right |-> interval_stress_buffer_right,
     interval_stress_left |-> interval_stress_left,
     interval_stress_right |-> interval_stress_right,
     signal_quality_label_left |-> signal_quality_label_left,
     signal_quality_label_right |-> signal_quality_label_right,
     ax2 |-> ax2,
     text_edit |-> text_edit]

SetSelf(self) ==
    /\ stress_values_left' = self.stress_values_left
    /\ stress_values_right' = self.stress_values_right
    /\ interval_stress_buffer_left' = self.interval_stress_buffer_left
    /\ interval_stress_buffer_right' = self.interval_stress_buffer_right
    /\ interval_stress_left' = self.interval_stress_left
    /\ interval_stress_right' = self.interval_stress_right
    /\ signal_quality_label_left' = self.signal_quality_label_left
    /\ signal_quality_label_right' = self.signal_quality_label_right
    /\ ax2' = self.ax2
    /\ text_edit' = self.text_edit

\* the frames whose decoded samples reach handle_new_data: good quality with
\* stress 70 and -30, poor (7) and very poor (200) quality with stress 45
GoodHigh == Frame(0, 30, 10, 0)

GoodNegative == Frame(0, 130, 10, 0)

Poor == Frame(7, 55, 20, 0)

VeryPoor == Frame(200, 55, 20, 0)

SampleFrames == {GoodHigh, GoodNegative, Poor, VeryPoor}

DataCall(ch, f) == [op |-> "data", channel |-> ch, frame |-> f]

TickCall == [op |-> "tick", channel |-> None, frame |-> <<>>]

\* one slot call on self: the data_received event of a decoded frame
\* delivered to handle_new_data, or the interval timer's update_interval
Call(self, c) ==
    IF c.op = "data"
    THEN LET e == process_long_packet(c.frame, c.channel)
         IN handle_new_data(self, e.channel, e.stress, e.attention,
                            e.signal_quality)
    ELSE update_interval(self)

\* the calls of script applied in order (a call keeps the fields of self)
RECURSIVE Run(_, _)
Run(self, script) ==
    IF script = <<>> THEN self
    ELSE LET next == Call(self, Head(script))
         IN IF DOMAIN next = DOMAIN self THEN Run(next, Tail(script)) ELSE self

\* three samples on each channel, then the interval timer
Round(l, r) ==
    << DataCall("left", l[1]), DataCall("right", r[1]),
       DataCall("left", l[2]), DataCall("right", r[2]),
       DataCall("left", l[3]), DataCall("right", r[3]), TickCall >>

\* a session of five intervals: left ends with 14 window values, 4 interval
\* averages and a running interval; right with a full window, a full history
\* and an empty accumulator
WarmScript ==
    Round(<<GoodHigh, GoodHigh, GoodHigh>>, <<GoodHigh, GoodHigh, GoodNegative>>)
    \o Round(<<GoodHigh, GoodHigh, GoodNegative>>, <<GoodHigh, GoodNegative, GoodNegative>>)
    \o Round(<<GoodHigh, GoodNegative, GoodNegative>>, <<GoodNegative, GoodNegative, GoodNegative>>)
    \o Round(<<GoodNegative, GoodNegative, GoodNegative>>, <<GoodHigh, GoodHigh, GoodHigh>>)
    \o << DataCall("right", GoodHigh), DataCall("right", GoodNegative),
          DataCall("right", GoodHigh), TickCall,
          DataCall("left", GoodHigh), DataCall("left", GoodNegative),
          DataCall("left", Poor) >>

WarmState == Run(init_data_buffers, WarmScript)

\* the application right after construction, or after the warm session; the
\* device sends nothing more on its own
AggInit ==
    /\ WorkerInit({[c \in Channels |-> <<>>]})
    /\ \/ AppInit(init_data_buffers)
       \/ AppInit(WarmState)
    /\ PureInit({<<>>}, {None})
    /\ LoopInit

\* the last two calls, oldest first
Last2(cs) == IF Len(cs) > 2 THEN SubSeq(cs, Len(cs) - 1, Len(cs)) ELSE cs

\* handle_new_data, called with the event of one decoded frame
HandleNewData(ch, f) ==
    /\ nobs < MaxObs
    /\ LET e == process_long_packet(f, ch) IN
       /\ e.ok
       /\ SetSelf(handle_new_data(Self, e.channel, e.stress, e.attention,
                                  e.signal_quality))
       /\ calls' = Last2(Append(calls,
                      [op |-> "data", channel |-> e.channel, stress |-> e.stress,
                       signal_quality |-> e.signal_quality]))
    /\ nobs' = nobs + 1
    /\ UNCHANGED <<nticks, frame_vars, wire_vars, pure_vars, loop_vars>>

\* update_interval, called by interval_timer
UpdateInterval ==
    /\ nticks < MaxTicks
    /\ SetSelf(update_interval(Self))
    /\ calls' = Last2(Append(calls,
                   [op |-> "tick", channel |-> None, stress |-> 0,
                    signal_quality |-> 0]))
    /\ nticks' = nticks + 1
    /\ UNCHANGED <<nobs, frame_vars, wire_vars, pure_vars, loop_vars>>

AggNext ==
    \/ \E ch \in Channels, f \in SampleFrames : HandleNewData(ch, f)
    \/ UpdateInterval

AggSpec == AggInit /\ [][AggNext]_vars

\* The GUI thread takes the oldest queued data_received event and calls the
\* slot handle_new_data with it.
DeliverSignal ==
    /\ signals # <<>>
    /\ LET e == Head(signals) IN
       /\ SetSelf(handle_new_data(Self, e.channel, e.stress, e.attention,
                                  e.signal_quality))
       /\ calls' = Last2(Append(calls,
                      [op |-> "data", channel |-> e.channel, stress |-> e.stress,
                       signal_quality |-> e.signal_quality]))
    /\ signals' = Tail(signals)
    /\ nobs' = nobs + 1
    /\ UNCHANGED <<nticks, frame_vars, origin, pure_vars, loop_vars>>

\* the device is about to send two frames on the left channel and, after a
\* stray byte, one frame on the right channel
PipeInit ==
    /\ WorkerInit({[left |-> GoodHigh \o Poor, right |-> <<7>> \o GoodNegative]})
    /\ AppInit(init_data_buffers)
    /\ PureInit({<<>>}, {None})
    /\ LoopInit

\* the worker and the application together: bytes arrive, tasks run, and
\* the GUI thread handles the samples they emit
PipeNext ==
    \/ \E ch \in Channels, n \in ChunkLens : Notify(ch, n, MaxPending)
    \/ RunTask
    \/ DeliverSignal

PipeSpec == PipeInit /\ [][PipeNext]_vars

----------------------------------------------------------------------------
(* The pure functions on their own *)

\* byte values tried in two of the three decoded fields while the third
\* runs over every byte
FewBytes == {0, 10, 30}

ByteTriples ==
    ((0..255) \X FewBytes \X FewBytes)
    \cup (FewBytes \X (0..255) \X FewBytes)
    \cup (FewBytes \X FewBytes \X (0..255))

\* frames with signal quality t[1], meditation t[2], attention t[3] and every
\* other payload byte fill; and a packet too short to hold offset 34
DecodeInputs ==
    { Frame(t[1], t[2], t[3], fill) : t \in ByteTriples, fill \in {0, 255} }
    \cup { SubSeq(Frame(0, 30, 10, 0), 1, 34) }

\* the values categorize_stress_5 is tried on: None and the fractions n / d
CatInputs ==
    {None} \cup
    UNION { { Frac(n, d) : n \in (-(MaxAbs * d))..(MaxAbs * d) } : d \in 1..MaxDen }

\* nothing arrives and no slot is called; one frame and one value are at hand
PureSpecInit ==
    /\ WorkerInit({[c \in Channels |-> <<>>]})
    /\ AppInit(init_data_buffers)
    /\ PureInit(DecodeInputs, {None})
    /\ LoopInit

CatSpecInit ==
    /\ WorkerInit({[c \in Channels |-> <<>>]})
    /\ AppInit(init_data_buffers)
    /\ PureInit({<<>>}, CatInputs)
    /\ LoopInit

\* process_long_packet on the frame at hand
Decode(ch) ==
    /\ decoded = NotDecoded
    /\ packet # <<>>
    /\ decoded' = process_long_packet(packet, ch)
    /\ UNCHANGED <<packet, value, band, frame_vars, wire_vars, agg_vars, loop_vars>>

\* categorize_stress_5 on the value at hand
Categorize ==
    /\ band = ""
    /\ band' = categorize_stress_5(value)
    /\ UNCHANGED <<packet, decoded, value, frame_vars, wire_vars, agg_vars, loop_vars>>

DecodeNext == \E ch \in Channels : Decode(ch)

DecodeSpec == PureSpecInit /\ [][DecodeNext]_vars

CatSpec == CatSpecInit /\ [][Categorize]_vars

----------------------------------------------------------------------------
(* The connection supervisor: BLEWorker.ble_loop, stop, and the restart and
   close handlers of MyApp.  Time passes in whole seconds. *)

\* handle_connection_status: the message shown in the status bar
handle_connection_status(connected) ==
    IF connected THEN "Connected to device" ELSE "Disconnected from device"

\* what ble_loop emits after connect() returned
connected_events == [log |-> <<"Connected">>, status |-> <<TRUE>>]

\* what ble_loop emits after one start_notify() returned
subscribed_events == [log |-> <<"Subscribed">>, status |-> <<>>]

\* what ble_loop emits after disconnect() returned
disconnected_events == [log |-> <<"Disconnected">>, status |-> <<FALSE>>]

\* (mutant) the except branch logs the error and emits no connection_status
error_events_silent == [log |-> <<"Connection error">>, status |-> <<>>]

\* what the except branch of ble_loop emits
error_events == [log |-> <<"Connection error">>, status |-> <<FALSE>>]

\* (mutant) the except branch leaves the loop
except_target_return == "done"

\* where the except branch of ble_loop goes on: into asyncio.sleep(5)
except_target == "retry"

\* the statements of ble_loop that await a call on the client
Awaits == {"connect", "start_notify_left", "start_notify_right",
           "stop_notify_left", "stop_notify_right", "disconnect"}

\* the statements of ble_loop that sleep
Sleeps == {"active", "retry"}

\* the client of the attempt worker w is making
client(w) == attempts[w]

\* the subscriptions of worker w without those of client c
released(w, c) == { s \in subs[w] : s[1] # c }

\* worker w emits log_message and connection_status events; the slots
\* append_text and handle_connection_status of MyApp receive them
Emit(w, events) ==
    /\ log_message' = [log_message EXCEPT ![w] = @ \o events.log]
    /\ connection_status' = [connection_status EXCEPT ![w] = @ \o events.status]
    /\ status_bar' = IF events.status = <<>> THEN status_bar
                     ELSE handle_connection_status(
                              events.status[Len(events.status)])

\* BLEWorker.stop on worker w
Stop(w) ==
    /\ stop_event' = [stop_event EXCEPT ![w] = TRUE]
    /\ stop_mark' = [stop_mark EXCEPT ![w] =
                        IF @ = NoMark THEN [pc |-> pc[w], left |-> sleep_left[w]]
                        ELSE @]

\* while not self._stop_event.is_set(): leave the loop, or make the next
\* BleakClient and call connect()
While(w) ==
    /\ pc[w] = "while"
    /\ IF stop_event[w]
       THEN pc' = [pc EXCEPT ![w] = "done"] /\ UNCHANGED <<attempts, log_message>>
       ELSE /\ attempts[w] < MaxAttempts
            /\ pc' = [pc EXCEPT ![w] = "connect"]
            /\ attempts' = [attempts EXCEPT ![w] = @ + 1]
            /\ log_message' = [log_message EXCEPT ![w] = <<>>]
    /\ UNCHANGED <<stop_event, sleep_left, open, subs, connection_status,
                   ble_worker, gui, wait_left, status_bar, stop_mark>>
    /\ UNCHANGED <<frame_vars, wire_vars, agg_vars, pure_vars>>

\* await client.connect() returns
ConnectOk(w) ==
    /\ pc[w] = "connect"
    /\ open' = [open EXCEPT ![w] = @ \cup {client(w)}]
    /\ Emit(w, connected_events)
    /\ pc' = [pc EXCEPT ![w] = "start_notify_left"]
    /\ UNCHANGED <<stop_event, sleep_left, attempts, subs, ble_worker, gui,
                   wait_left, stop_mark>>
    /\ UNCHANGED <<frame_vars, wire_vars, agg_vars, pure_vars>>

\* an awaited call on the client raises: the except branch logs, emits
\* connection_status(False) and sleeps; it calls nothing on the client
Raise(w) ==
    /\ pc[w] \in Awaits
    /\ Emit(w, error_events)
    /\ pc' = [pc EXCEPT ![w] = except_target]
    /\ sleep_left' = [sleep_left EXCEPT ![w] = RETRY_DELAY]
    /\ UNCHANGED <<stop_event, attempts, open, subs, ble_worker, gui, wait_left,
                   stop_mark>>
    /\ UNCHANGED <<frame_vars, wire_vars, agg_vars, pure_vars>>

\* await client.start_notify(uuid, callback) returns; after the second
\* channel the loop is about to evaluate the inner while condition
StartNotifyOk(w, ch) ==
    /\ pc[w] = IF ch = "left" THEN "start_notify_left" ELSE "start_notify_right"
    /\ client(w) \in open[w]
    /\ subs' = [subs EXCEPT ![w] = @ \cup {<<client(w), ch>>}]
    /\ Emit(w, subscribed_events)
    /\ pc' = [pc EXCEPT ![w] = IF ch = "left" THEN "start_notify_right" ELSE "active"]
    /\ sleep_left' = [sleep_left EXCEPT ![w] = 0]
    /\ UNCHANGED <<stop_event, attempts, open, ble_worker, gui, wait_left, stop_mark>>
    /\ UNCHANGED <<frame_vars, wire_vars, agg_vars, pure_vars>>

\* while not self._stop_event.is_set(): await asyncio.sleep(1)
Poll(w) ==
    /\ pc[w] = "active"
    /\ sleep_left[w] = 0
    /\ IF stop_event[w]
       THEN pc' = [pc EXCEPT ![w] = "stop_notify_left"] /\ UNCHANGED sleep_left
       ELSE sleep_left' = [sleep_left EXCEPT ![w] = POLL_DELAY] /\ UNCHANGED pc
    /\ UNCHANGED <<stop_event, attempts, open, subs, connection_status,
                   log_message, ble_worker, gui, wait_left, status_bar, stop_mark>>
    /\ UNCHANGED <<frame_vars, wire_vars, agg_vars, pure_vars>>

\* await client.stop_notify(uuid) returns
StopNotifyOk(w, ch) ==
    /\ pc[w] = IF ch = "left" THEN "stop_notify_left" ELSE "stop_notify_right"
    /\ client(w) \in open[w]
    /\ subs' = [subs EXCEPT ![w] = @ \ {<<client(w), ch>>}]
    /\ pc' = [pc EXCEPT ![w] = IF ch = "left" THEN "stop_notify_right" ELSE "disconnect"]
    /\ UNCHANGED <<stop_event, sleep_left, attempts, open, connection_status,
                   log_message, ble_worker, gui, wait_left, status_bar, stop_mark>>
    /\ UNCHANGED <<frame_vars, wire_vars, agg_vars, pure_vars>>

\* await client.disconnect() returns
DisconnectOk(w) ==
    /\ pc[w] = "disconnect"
    /\ open' = [open EXCEPT ![w] = @ \ {client(w)}]
    /\ subs' = [subs EXCEPT ![w] = released(w, client(w))]
    /\ Emit(w, disconnected_events)
    /\ pc' = [pc EXCEPT ![w] = "while"]
    /\ UNCHANGED <<stop_event, sleep_left, attempts, ble_worker, gui, wait_left,
                   stop_mark>>
    /\ UNCHANGED <<frame_vars, wire_vars, agg_vars, pure_vars>>

\* await asyncio.sleep(5) of the except branch returns
RetryOver(w) ==
    /\ pc[w] = "retry"
    /\ sleep_left[w] = 0
    /\ pc' = [pc EXCEPT ![w] = "while"]
    /\ UNCHANGED <<stop_event, sleep_left, attempts, open, subs, connection_status,
                   log_message, ble_worker, gui, wait_left, status_bar, stop_mark>>
    /\ UNCHANGED <<frame_vars, wire_vars, agg_vars, pure_vars>>

\* the workers inside an asyncio.sleep
Sleeping == { w \in Workers : pc[w] \in Sleeps }

\* is the GUI thread inside wait(2000)
Waiting == gui \in {"restart_wait", "close_wait"}

\* the workers about to evaluate the outer while condition, which takes no
\* time (a worker that has used up its attempts is not followed further)
AtWhile == { w \in Workers :
               pc[w] = "while" /\ (stop_event[w] \/ attempts[w] < MaxAttempts) }

\* One second passes: every running sleep and wait has a second less to go.
\* A sleep or wait that is over returns before more time passes, and so
\* does a worker that awaits nothing.
Tick ==
    /\ Sleeping # {} \/ Waiting
    /\ AtWhile = {}
    /\ \A w \in Sleeping : sleep_left[w] > 0
    /\ Waiting => wait_left > 0
    /\ sleep_left' = [w \in Workers |->
                         IF w \in Sleeping THEN sleep_left[w] - 1 ELSE sleep_left[w]]
    /\ wait_left' = IF Waiting THEN wait_left - 1 ELSE wait_left
    /\ UNCHANGED <<pc, stop_event, attempts, open, subs, connection_status,
                   log_message, ble_worker, gui, status_bar, stop_mark>>
    /\ UNCHANGED <<frame_vars, wire_vars, agg_vars, pure_vars>>

\* The connection of client c goes down (the device is switched off, moves
\* out of range, or the host drops a client nothing refers to any more).
\* ble_loop registers no disconnected callback and awaits nothing that
\* reports it.
LinkLost(w, c) ==
    /\ c \in open[w]
    /\ open' = [open EXCEPT ![w] = @ \ {c}]
    /\ subs' = [subs EXCEPT ![w] = released(w, c)]
    /\ UNCHANGED <<pc, stop_event, sleep_left, attempts, connection_status,
                   log_message, ble_worker, gui, wait_left, status_bar, stop_mark>>
    /\ UNCHANGED <<frame_vars, wire_vars, agg_vars, pure_vars>>

\* A live subscription of the worker the application holds delivers the
\* next n bytes of its channel to the callback given to start_notify.
LinkNotify(w, c, ch, n) ==
    /\ w = ble_worker
    /\ pc[w] # "done"
    /\ <<c, ch>> \in subs[w]
    /\ n > 0
    /\ Deliver(c, ch, n, 1)

\* restart_ble_worker up to its wait: stop(), then wait(2000) begins
RestartBegin ==
    /\ gui = "idle"
    /\ ble_worker = "first"
    /\ Stop(ble_worker)
    /\ gui' = "restart_wait"
    /\ wait_left' = WAIT_TIMEOUT
    /\ UNCHANGED <<pc, sleep_left, attempts, open, subs, connection_status,
                   log_message, ble_worker, status_bar>>
    /\ UNCHANGED <<frame_vars, wire_vars, agg_vars, pure_vars>>

\* wait(2000) returns, because the thread of the worker has finished or
\* because the two seconds are over; restart_ble_worker makes the next
\* BLEWorker, with empty buffers, and connect_ble_worker starts it
RestartEnd ==
    /\ gui = "restart_wait"
    /\ pc[ble_worker] = "done" \/ wait_left = 0
    /\ gui' = "idle"
    /\ wait_left' = 0
    /\ ble_worker' = "second"
    /\ pc' = [pc EXCEPT !["second"] = "while"]
    /\ buffer_left' = <<>>
    /\ buffer_right' = <<>>
    /\ UNCHANGED <<stop_event, sleep_left, attempts, open, subs, connection_status,
                   log_message, status_bar, stop_mark>>
    /\ UNCHANGED <<tasks, data_received, rest, stream, consumed, held>>
    /\ UNCHANGED <<wire_vars, agg_vars, pure_vars>>

\* closeEvent up to its wait: stop(), then wait(2000) begins
CloseBegin ==
    /\ gui = "idle"
    /\ Stop(ble_worker)
    /\ gui' = "close_wait"
    /\ wait_left' = WAIT_TIMEOUT
    /\ UNCHANGED <<pc, sleep_left, attempts, open, subs, connection_status,
                   log_message, ble_worker, status_bar>>
    /\ UNCHANGED <<frame_vars, wire_vars, agg_vars, pure_vars>>

\* wait(2000) of closeEvent returns and the window closes
CloseEnd ==
    /\ gui = "close_wait"
    /\ pc[ble_worker] = "done" \/ wait_left = 0
    /\ gui' = "closed"
    /\ wait_left' = 0
    /\ UNCHANGED <<pc, stop_event, sleep_left, attempts, open, subs,
                   connection_status, log_message, ble_worker, status_bar, stop_mark>>
    /\ UNCHANGED <<frame_vars, wire_vars, agg_vars, pure_vars>>

\* one step of the ble_loop of worker w
LoopStep(w) ==
    \/ While(w)
    \/ ConnectOk(w)
    \/ Raise(w)
    \/ \E ch \in Channels : StartNotifyOk(w, ch)
    \/ Poll(w)
    \/ \E ch \in Channels : StopNotifyOk(w, ch)
    \/ DisconnectOk(w)
    \/ RetryOver(w)

\* the chunk lengths of the supervised link: a frame arrives in two halves
HalfFrame == {PACKET_SIZE \div 2}

\* the first worker is running; the device is about to send one frame on
\* the left channel
LoopSpecInit ==
    /\ WorkerInit({[left |-> Frame(0, 130, 10, 0), right |-> <<>>]})
    /\ AppInit(init_data_buffers)
    /\ PureInit({<<>>}, {None})
    /\ LoopInit

\* one worker from its start to its end: its loop, the link, the bytes it
\* is sent, the clock, and the window being closed
LoopNext ==
    \/ \E w \in Workers : LoopStep(w)
    \/ \E w \in Workers : \E c \in 1..MaxAttempts : LinkLost(w, c)
    \/ \E w \in Workers : \E c \in 1..MaxAttempts :
          \E ch \in Channels, n \in HalfFrame : LinkNotify(w, c, ch, n)
    \/ RunTask
    \/ Tick
    \/ CloseBegin
    \/ CloseEnd

LoopSpec == LoopSpecInit /\ [][LoopNext]_vars

\* the workers of an application whose Reconnect button is pressed once, on
\* a link that carries no data and goes down only when a call fails
RestartNext ==
    \/ \E w \in Workers : LoopStep(w)
    \/ Tick
    \/ RestartBegin
    \/ RestartEnd

\* the first worker is running and the device sends nothing
RestartSpecInit ==
    /\ WorkerInit({[c \in Channels |-> <<>>]})
    /\ AppInit(init_data_buffers)
    /\ PureInit({<<>>}, {None})
    /\ LoopInit

RestartSpec == RestartSpecInit /\ [][RestartNext]_vars

----------------------------------------------------------------------------
(* Properties of the frame pipeline *)

buffer_of(ch) == IF ch = "left" THEN buffer_left ELSE buffer_right

RECURSIVE PendingLen(_, _)
PendingLen(q, ch) ==
    IF q = <<>> THEN 0
    ELSE (IF Head(q).channel = ch THEN Len(Head(q).data) ELSE 0) + PendingLen(Tail(q), ch)

\* how many delivered bytes of ch the handler has been given so far
Processed(ch) == Len(stream[ch]) - PendingLen(tasks, ch)

\* the events of delivering all of b to an empty buffer as one chunk
OneShot(b, ch) == events_of(handler(<<>>, b).packets, ch, 0)

\* C1: whenever every delivered chunk of a channel has been handled, the
\* events emitted for the channel, however the delivered bytes were split
\* into chunks, are those of delivering the same bytes as one chunk.
ChunkBoundaryIndependent ==
    \A ch \in Channels :
        PendingLen(tasks, ch) = 0 =>
            data_received[ch] = OneShot(stream[ch], ch)

\* C1 witness: both frames of Stream2 were emitted although an earlier
\* handler run had stopped with bytes kept back (a cut inside the stream)
ChunkSplitWitness ==
    /\ stream["left"] = SubSeq(Stream2, 1, 2 * PACKET_SIZE)
    /\ tasks = <<>>
    /\ held["left"]
    /\ Len(data_received["left"]) = 2

\* the buffer holds a marker with fewer than PACKET_SIZE bytes from it onward
Incomplete(b) == contains(b) /\ Len(b) < find(b) + PACKET_SIZE

\* stream offset of the marker the buffer is waiting on
MarkPos(ch) == consumed[ch] + find(buffer_of(ch))

\* C2: while the bytes handed to the handler from a waiting marker onward
\* are fewer than 36, a handler run emits no event, and the same marker
\* keeps waiting.
NoPartialFrameDecode ==
    [][\A ch \in Channels :
          (Incomplete(buffer_of(ch)) /\ Processed(ch)' - MarkPos(ch) < PACKET_SIZE)
              => /\ data_received'[ch] = data_received[ch]
                 /\ Incomplete(buffer_of(ch))'
                 /\ MarkPos(ch)' = MarkPos(ch)]_vars

\* C2 witness: a marker has waited through a handler run and is still short
PartialFrameWitness ==
    /\ Incomplete(buffer_right)
    /\ Len(buffer_right) > Len(MARKER) + 2
    /\ stream["right"] # rest["right"]
    /\ rest["right"] # <<>>
    /\ data_received["right"] = <<>>
    /\ tasks = <<>>

\* end offset of the i-th frame of a channel (0 before the first)
FrameEnd(ch, i) == IF i = 0 THEN 0 ELSE data_received[ch][i].at + PACKET_SIZE

\* C3: every emitted frame is 36 bytes long, starts with the marker, is the
\* 36 stream bytes from the first marker at or after the end of the frame
\* before it, so no byte is in two frames; and the buffer restarts right
\* after the last emitted frame, the bytes before its marker being gone.
ExactFrameConsumption ==
    \A ch \in Channels :
        /\ \A i \in 1..Len(data_received[ch]) :
              LET e == data_received[ch][i]
                  from == FrameEnd(ch, i - 1)
              IN /\ Len(e.packet) = PACKET_SIZE
                 /\ SubSeq(e.packet, 1, 3) = <<170, 170, 32>>
                 /\ e.packet = SubSeq(stream[ch], e.at + 1, e.at + PACKET_SIZE)
                 /\ e.at >= from
                 /\ e.at - from = find(SubSeq(stream[ch], from + 1, Len(stream[ch])))
        /\ consumed[ch] = FrameEnd(ch, Len(data_received[ch]))
        /\ buffer_of(ch) = SubSeq(stream[ch], consumed[ch] + 1, Processed(ch))

\* C3 witness: noise was dropped and a frame holding an inner marker was
\* emitted, followed by a second frame
InnerMarkerWitness ==
    /\ Len(data_received["left"]) = 2
    /\ data_received["left"][1].at = 2
    /\ data_received["left"][1].packet = FrameM(0, 30, 10)
    /\ data_received["left"][2].at = 2 + PACKET_SIZE

\* the event a 36-byte frame decodes to
EventOf(f, at) ==
    [stress |-> 100 - f[33], attention |-> f[35], signal_quality |-> f[5],
     at |-> at, packet |-> f]

\* the oldest task holds exactly two complete frames and its buffer is empty
TwoFrameChunk(ch) ==
    /\ tasks # <<>>
    /\ Head(tasks).channel = ch
    /\ buffer_of(ch) = <<>>
    /\ Len(Head(tasks).data) = 2 * PACKET_SIZE
    /\ MarkerAt(Head(tasks).data, 0)
    /\ MarkerAt(Head(tasks).data, PACKET_SIZE)

\* the events of a channel are in stream order, each the frame at its offset
InStreamOrder(ch) ==
    \A i \in 1..Len(data_received[ch]) :
        /\ data_received[ch][i].packet =
              SubSeq(stream[ch], data_received[ch][i].at + 1,
                     data_received[ch][i].at + PACKET_SIZE)
        /\ \A j \in 1..(i - 1) : data_received[ch][j].at < data_received[ch][i].at

\* C10: with several tasks queued, chunks of a channel are handled in
\* delivery order: the events of a channel stay in stream order, the handled
\* bytes are a prefix of the delivered ones, and a chunk of two complete
\* frames adds exactly two events, first frame first.
PerChannelOrder ==
    [][\A ch \in Channels :
          /\ InStreamOrder(ch)'
          /\ (buffer_of(ch) = SubSeq(stream[ch], consumed[ch] + 1, Processed(ch)))'
          /\ (TwoFrameChunk(ch) /\ tasks' = Tail(tasks))
                => data_received'[ch] = data_received[ch] \o
                      << EventOf(SubSeq(Head(tasks).data, 1, PACKET_SIZE), consumed[ch]),
                         EventOf(SubSeq(Head(tasks).data, PACKET_SIZE + 1, 2 * PACKET_SIZE),
                                 consumed[ch] + PACKET_SIZE) >>]_vars

\* C10 witness: two frames were emitted from one chunk (no run of the channel
\* kept bytes back, so the 72 bytes came as one chunk) while another task of
\* the same channel was queued behind it
TwoFrameOrderWitness ==
    /\ Len(data_received["right"]) = 2
    /\ consumed["right"] = 2 * PACKET_SIZE
    /\ buffer_right = <<>>
    /\ ~held["right"]
    /\ Len(tasks) = 1
    /\ tasks[1].channel = "right"

----------------------------------------------------------------------------
(* Properties of the aggregator *)

window_of(ch) == IF ch = "left" THEN stress_values_left ELSE stress_values_right

accumulator_of(ch) ==
    IF ch = "left" THEN interval_stress_buffer_left ELSE interval_stress_buffer_right

history_of(ch) == IF ch = "left" THEN interval_stress_left ELSE interval_stress_right

label_of(ch) ==
    IF ch = "left" THEN signal_quality_label_left ELSE signal_quality_label_right

\* C4: each moving window holds at most 15 values and each interval history
\* at most 5, in every reachable state.
BoundedCapacity ==
    \A ch \in Channels :
        /\ Len(window_of(ch)) =< 15
        /\ Len(history_of(ch)) =< 5

\* C4 witness: the left window is full after its oldest value was evicted,
\* and the right history is full after its oldest average was evicted
EvictionWitness ==
    /\ stress_values_left =
          SubSeq(WarmState.stress_values_left, 2, 14) \o <<-30, -30>>
    /\ Len(stress_values_left) = 15
    /\ interval_stress_right =
          SubSeq(WarmState.interval_stress_right, 2, 5) \o <<[num |-> -30, den |-> 1]>>
    /\ Len(interval_stress_right) = 5

\* the last n entries of a sequence
LastN(q, n) == IF Len(q) > n THEN SubSeq(q, Len(q) - n + 1, Len(q)) ELSE q

\* the step is a handle_new_data call / an update_interval call
DataStep == nobs' = nobs + 1

TickStep == nticks' = nticks + 1

\* the stress value only samples of poor or very poor quality carry here
PoorStress == 100 - Poor[33]

Holds(q, x) == \E i \in 1..Len(q) : q[i] = x

\* C5: a sample with signalQuality # 0 leaves its channel's window and
\* accumulator unchanged and sets the channel's label to that quality; a
\* sample with signalQuality = 0 is appended to both; no window or
\* accumulator ever holds the stress value of a poor-quality sample.
QualityGating ==
    [][DataStep =>
          \A ch \in Channels :
              LET c == calls'[Len(calls')] IN
              /\ (c.channel = ch /\ c.signal_quality # 0) =>
                    /\ window_of(ch)' = window_of(ch)
                    /\ accumulator_of(ch)' = accumulator_of(ch)
                    /\ label_of(ch)'.quality = c.signal_quality
                    /\ label_of(ch)'.text =
                          (IF c.signal_quality =< 50 THEN "Poor" ELSE "Very Poor")
              /\ (c.channel = ch /\ c.signal_quality = 0) =>
                    /\ window_of(ch)' = LastN(Append(window_of(ch), c.stress), 15)
                    /\ accumulator_of(ch)' = Append(accumulator_of(ch), c.stress)
                    /\ label_of(ch)'.text = "Good"
              /\ ~Holds(window_of(ch)', PoorStress)
              /\ ~Holds(accumulator_of(ch)', PoorStress)]_vars

\* C5 witness: a very poor sample has just been shown on the right label
\* while the right window and accumulator keep their accepted values
PoorSampleWitness ==
    /\ calls # <<>>
    /\ calls[Len(calls)].op = "data"
    /\ calls[Len(calls)].channel = "right"
    /\ calls[Len(calls)].signal_quality = 200
    /\ signal_quality_label_right.text = "Very Poor"
    /\ signal_quality_label_right.quality = 200
    /\ interval_stress_buffer_right = <<70, -30>>
    /\ stress_values_right = <<70, -30>>

\* C6: an update_interval that finds a channel's accumulator empty leaves
\* that channel's history as it was, and the accumulator is empty whenever
\* the previous call was update_interval too, or was a sample that was not
\* accepted on the channel right after an update_interval.
EmptyRollupNoOp ==
    [][TickStep =>
          \A ch \in Channels :
              /\ accumulator_of(ch) = <<>> =>
                    /\ history_of(ch)' = history_of(ch)
                    /\ accumulator_of(ch)' = <<>>
              /\ (calls # <<>> /\ calls[Len(calls)].op = "tick")
                    => accumulator_of(ch) = <<>>
              /\ (/\ Len(calls) = 2
                  /\ calls[1].op = "tick"
                  /\ calls[2].op = "data"
                  /\ (calls[2].channel # ch \/ calls[2].signal_quality # 0))
                    => accumulator_of(ch) = <<>>]_vars

\* C6 witness: update_interval ran twice in a row and the left history still
\* ends with the one average of the interval before
DoubleRollupWitness ==
    /\ Len(calls) = 2
    /\ calls[1].op = "tick"
    /\ calls[2].op = "tick"
    /\ nticks = 2
    /\ interval_stress_left = <<[num |-> 70, den |-> 1]>>
    /\ interval_stress_right = <<>>

RECURSIVE Total(_)
Total(q) == IF q = <<>> THEN 0 ELSE q[1] + Total(Tail(q))

\* C7: an update_interval that finds a channel's accumulator non-empty appends
\* exactly one value, the sum of the accumulated values divided by their
\* count, to that channel's history, dropping the oldest entry when the
\* history held 5, and empties the accumulator; each channel on its own.
RollupAppendsMean ==
    [][TickStep =>
          \A ch \in Channels :
              accumulator_of(ch) # <<>> =>
                  LET h == history_of(ch)
                      h2 == history_of(ch)'
                      m == h2[Len(h2)]
                  IN /\ Len(h2) = (IF Len(h) = 5 THEN 5 ELSE Len(h) + 1)
                     /\ m.den > 0
                     /\ m.num * Len(accumulator_of(ch)) = Total(accumulator_of(ch)) * m.den
                     /\ SubSeq(h2, 1, Len(h2) - 1) =
                           (IF Len(h) = 5 THEN SubSeq(h, 2, 5) ELSE h)
                     /\ accumulator_of(ch)' = <<>>]_vars

\* C7 witness: the left history, full, took the mean 110/3 of 70, 70, -30 and
\* lost its oldest entry, while the right history gained nothing
MeanAppendedWitness ==
    /\ calls # <<>>
    /\ calls[Len(calls)].op = "tick"
    /\ interval_stress_left =
          << [num |-> 110, den |-> 3], [num |-> 10, den |-> 3], [num |-> -30, den |-> 1],
             [num |-> 20, den |-> 1], [num |-> 110, den |-> 3] >>
    /\ interval_stress_buffer_left = <<>>
    /\ interval_stress_right = WarmState.interval_stress_right

----------------------------------------------------------------------------
(* Properties of the pure functions *)

\* C8: a 36-byte frame decodes to signalQuality = byte 4, attention = byte
\* 34 and stress = 100 - byte 32, unclamped: within -155..100 and negative
\* whenever byte 32 exceeds 100; quality 0, meditation 30, attention 10
\* decode to stress 70, attention 10, quality 0.
DecodeFields ==
    (Len(packet) = 36 /\ decoded # NotDecoded) =>
        /\ decoded.ok
        /\ decoded.signal_quality = packet[5]
        /\ decoded.attention = packet[35]
        /\ decoded.stress = 100 - packet[33]
        /\ decoded.stress \in (-155)..100
        /\ packet[33] > 100 => decoded.stress < 0
        /\ (packet[5] = 0 /\ packet[33] = 30 /\ packet[35] = 10)
              => /\ decoded.stress = 70
                 /\ decoded.attention = 10
                 /\ decoded.signal_quality = 0

\* C8 witness: the largest meditation byte decoded to the lowest stress
NegativeStressWitness ==
    /\ Len(packet) = 36
    /\ packet[33] = 255
    /\ packet[4] = 255
    /\ decoded.ok
    /\ decoded.stress = -155

\* C9: None is "No Data"; any other value gets the one band of the table,
\* with no clamping: below 0 it is "Very Low", above 100 "Very High".
CategorizeBands ==
    band # "" =>
    IF value.den = 0
    THEN band = "No Data"
    ELSE /\ value.den > 0
         /\ band \in {"Very Low", "Low", "Moderate", "High", "Very High"}
         /\ band = "Very Low" <=> value.num < 20 * value.den
         /\ band = "Low" <=> (20 * value.den =< value.num /\ value.num < 40 * value.den)
         /\ band = "Moderate" <=> (40 * value.den =< value.num /\ value.num < 60 * value.den)
         /\ band = "High" <=> (60 * value.den =< value.num /\ value.num < 80 * value.den)
         /\ band = "Very High" <=> value.num >= 80 * value.den
         /\ value.num < 0 => band = "Very Low"
         /\ value.num > 100 * value.den => band = "Very High"

\* C9 witness: a value above 100 was categorized
AboveRangeWitness ==
    /\ value.den = 2
    /\ value.num = 201
    /\ band = "Very High"

----------------------------------------------------------------------------
(* Properties of the worker and the application together *)

OtherChannel(ch) == IF ch = "left" THEN "right" ELSE "left"

\* the step hands a chunk of ch to a new task, runs a task of ch, or calls
\* handle_new_data with a sample of ch
ActsOn(ch) ==
    \/ \E n \in 0..Len(rest[ch]) :
          tasks' = Append(tasks, [channel |-> ch, data |-> SubSeq(rest[ch], 1, n)])
    \/ tasks # <<>> /\ Head(tasks).channel = ch /\ tasks' = Tail(tasks)
    \/ signals # <<>> /\ Head(signals).channel = ch /\ signals' = Tail(signals)

\* the step leaves everything kept for channel ch as it was
Untouched(ch) ==
    /\ buffer_of(ch)' = buffer_of(ch)
    /\ data_received'[ch] = data_received[ch]
    /\ consumed'[ch] = consumed[ch]
    /\ window_of(ch)' = window_of(ch)
    /\ accumulator_of(ch)' = accumulator_of(ch)
    /\ history_of(ch)' = history_of(ch)
    /\ label_of(ch)' = label_of(ch)

\* is the sequence a a prefix of the sequence b
IsPrefix(a, b) == Len(a) =< Len(b) /\ a = SubSeq(b, 1, Len(a))

\* the frames emitted for ch are the first of those its own bytes hold
OwnBytesOnly(ch) == IsPrefix(data_received[ch], OneShot(stream[ch], ch))

\* C16: a step that handles a chunk or a decoded sample of one channel
\* leaves the other channel's byte buffer, emitted frames, moving window,
\* interval accumulator, interval history and signal quality label
\* unchanged; and the frames emitted on a channel are determined by the
\* bytes delivered on that channel alone (in the state each step starts
\* from; every state of PipeSpec has a step, the empty notification).
ChannelIndependence ==
    [][\A ch \in Channels :
          /\ ActsOn(ch) => Untouched(OtherChannel(ch))
          /\ OwnBytesOnly(ch)]_vars

\* C16 witness: a sample of the right channel has just been handled while
\* the left channel held a sample in its window and a partial frame in its
\* buffer
RightSampleBesideLeftWitness ==
    /\ calls # <<>>
    /\ calls[Len(calls)].op = "data"
    /\ calls[Len(calls)].channel = "right"
    /\ stress_values_right # <<>>
    /\ stress_values_left # <<>>
    /\ buffer_left # <<>>

----------------------------------------------------------------------------
(* Properties of the connection supervisor *)

\* worker w takes a step of its ble_loop
Steps(w) == <<pc[w], sleep_left[w]>>' # <<pc[w], sleep_left[w]>>

\* C11: a worker that is connected and subscribed, has not been asked to
\* stop and whose connection has gone down leaves the connected state at the
\* next step of its loop: it emits connection_status(False) and enters the
\* retry delay of RETRY_DELAY seconds, from which one new connect follows.
ActiveErrorReconnects ==
    [][\A w \in Workers :
          (/\ pc[w] = "active"
           /\ sleep_left[w] = 0
           /\ ~stop_event[w]
           /\ client(w) \notin open[w]
           /\ Steps(w))
          => /\ pc'[w] = "retry"
             /\ sleep_left'[w] = RETRY_DELAY
             /\ connection_status'[w] = Append(connection_status[w], FALSE)]_vars

\* the workers whose run loop has started and has not returned
Running == { w \in Workers : pc[w] \notin {"none", "done"} }

\* C12: restart_ble_worker never starts the run loop of the new worker while
\* the run loop of the previous worker is still executing, so at most one
\* worker is running at any time.
OneWorkerRunning == Cardinality(Running) =< 1

\* stop() was called on worker w just as its retry delay began
StoppedAtRetryStart(w) == stop_mark[w] = [pc |-> "retry", left |-> RETRY_DELAY]

\* C13: once stop() has been called on a worker its loop makes no further
\* connect attempt, and a retry delay that was pending when stop() was
\* called is cut short: the worker does not stay in it until its last
\* second has passed.
StopCancelsRetry ==
    [][\A w \in Workers :
          stop_event[w]
          => /\ attempts'[w] = attempts[w]
             /\ ~(/\ StoppedAtRetryStart(w)
                  /\ pc'[w] = "retry"
                  /\ sleep_left'[w] = 0)]_vars

\* the clients through which the bytes of the k-th frame emitted on channel
\* ch were received
ClientsOf(ch, k) ==
    LET at == data_received[ch][k].at
    IN { origin[ch][i] : i \in (at + 1)..(at + PACKET_SIZE) }

\* C14: a failure or disconnect discards partial frames: the byte buffers
\* are emptied before a chunk of the next connection is processed, so every
\* emitted frame is made of bytes received through one connection.
NoFrameAcrossConnections ==
    \A ch \in Channels : \A k \in DOMAIN data_received[ch] :
        Cardinality(ClientsOf(ch, k)) = 1

----------------------------------------------------------------------------
(* Properties of the byte buffers under streams without frames *)

\* a bound on the buffer that allows for a frame and the longest chunk, twice
BufferBound == 2 * (PACKET_SIZE + 2 * PACKET_SIZE)

\* C15: there is a fixed bound on the length of each channel's byte buffer
\* after every notification_handler call, whatever the stream, also when it
\* never contains the marker or its only marker is never followed by a
\* whole frame.
BoundedBuffer == \A ch \in Channels : Len(buffer_of(ch)) =< BufferBound

\* where ble_loop goes on when the awaited call returns
Returned(at) ==
    CASE at = "connect" -> "start_notify_left"
      [] at = "start_notify_left" -> "start_notify_right"
      [] at = "start_notify_right" -> "active"
      [] at = "stop_notify_left" -> "stop_notify_right"
      [] at = "stop_notify_right" -> "disconnect"
      [] at = "disconnect" -> "while"

\* C17: a failure never ends the run loop.  A step that leaves an awaited
\* client call other than by its return is the except branch: it appends a
\* log line and connection_status(False) and enters the retry delay of
\* RETRY_DELAY seconds; the delay is left only when it is over, for the
\* while condition; from there the loop makes another connect attempt
\* unless stop() was called; and the loop ends only after stop() was called.
FailuresAreRetried ==
    [][\A w \in Workers :
          /\ (pc[w] \in Awaits /\ pc'[w] \notin {pc[w], Returned(pc[w])})
             => /\ pc'[w] = "retry"
                /\ sleep_left'[w] = RETRY_DELAY
                /\ log_message'[w] = Append(log_message[w], "Connection error")
                /\ connection_status'[w] = Append(connection_status[w], FALSE)
          /\ (pc[w] = "retry" /\ pc'[w] # "retry")
             => sleep_left[w] = 0 /\ pc'[w] = "while"
          /\ (pc[w] = "while" /\ pc'[w] # "while")
             => IF stop_event[w] THEN pc'[w] = "done"
                ELSE pc'[w] = "connect" /\ attempts'[w] = attempts[w] + 1
          /\ (pc[w] # "done" /\ pc'[w] = "done") => stop_event[w]]_vars

\* C17 witness: the first attempt failed, the retry delay passed, the second
\* attempt was made and failed too, and the worker, not asked to stop, is
\* in the retry delay again
SecondFailureWitness ==
    /\ attempts["first"] = 2
    /\ pc["first"] = "retry"
    /\ connection_status["first"] = <<FALSE, FALSE>>
    /\ ~stop_event["first"]

\* what worker w still holds of the client of its last attempt
HeldOpen(w) ==
    (IF client(w) \in open[w] THEN {client(w)} ELSE {})
    \cup { s[1] : s \in { t \in subs[w] : t[1] = client(w) } }

\* C18: a worker that was connected and subscribed when stop() was called
\* has unsubscribed from both channels and disconnected by the time its run
\* loop has ended: it leaves neither a subscription nor the connection open.
StopWhileActiveReleases ==
    \A w \in Workers :
        (pc[w] = "done" /\ stop_mark[w].pc = "active") => HeldOpen(w) = {}

\* the clients of worker w with a live subscription to channel ch
Subscribers(w, ch) == { s[1] : s \in { t \in subs[w] : t[2] = ch } }

\* C19: in every reachable state each channel has at most one live
\* notification subscription feeding its byte buffer: the connection and
\* subscriptions of a client whose attempt failed are released before the
\* next attempt connects and subscribes.
OneSubscriptionPerChannel ==
    \A w \in Workers : \A ch \in Channels : Cardinality(Subscribers(w, ch)) =< 1

\* the statements of ble_loop between a connect() that returned and the
\* connection_status(False) that follows it
Connected == {"start_notify_left", "start_notify_right", "active",
              "stop_notify_left", "stop_notify_right", "disconnect"}

\* C20: the connection_status events of one worker are well formed.  True
\* is never emitted twice in a row; while the last event is True the worker
\* is past a connect() that returned in its current attempt and before the
\* False that ends it, so the last event is not True when the worker is at
\* the while condition, is connecting, is in the retry delay or has ended.
StatusWellFormed ==
    \A w \in Workers :
        LET events == connection_status[w] IN
        /\ \A i \in 1..(Len(events) - 1) : ~(events[i] /\ events[i + 1])
        /\ (events # <<>> /\ events[Len(events)])
           => /\ pc[w] \in Connected
              /\ log_message[w] # <<>>
              /\ log_message[w][1] = "Connected"

\* C20 witness: the worker connected twice, each True was followed by a
\* False, and its loop has ended
TwoSessionsWitness ==
    /\ connection_status["first"] = <<TRUE, FALSE, TRUE, FALSE>>
    /\ pc["first"] = "done"

====
